---- MODULE Spec2Model ----
(***************************************************************************)
(* Age-performance (Pareto) front of race results: the age reducer, the    *)
(* front computation, the per-runner metrics and the per-year and all-time *)
(* aggregations of build.py and server.py.                                 *)
(*                                                                         *)
(* A runner is a record with the fields of the dict built by               *)
(* load_raw_results (name, age, sex, division, div_place, time_seconds,    *)
(* time_display, year) plus `row`, the position of the dict in the list it *)
(* was loaded into: it stands for the identity of the Python object, so    *)
(* two rows with equal contents remain two runners, and an entry of a      *)
(* result list carries the row of the runner it was built from.            *)
(* time_seconds is a positive number (load_raw_results drops a row whose   *)
(* time is falsy).  Times produced by the interpolation are exact          *)
(* rationals [num, den], where Python computes in floating point.          *)
(***************************************************************************)
EXTENDS Integers, Sequences, FiniteSets, TLC

VARIABLES runners, call, ret, files, year

vars == <<runners, call, ret, files, year>>

\* Bounds of the model.
MaxAge == 3
MaxTime == 3
MaxLen == 3
MaxLoadAge == 2
MaxLoadTime == 2
MaxRows == 2

Ages == 1..MaxAge
Times == 1..MaxTime

\* float('inf'): larger than every time_seconds of the model.
inf == MaxTime + 1

Range(s) == {s[i] : i \in 1..Len(s)}

Reverse(s) == [i \in 1..Len(s) |-> s[Len(s) + 1 - i]]

SeqsUpTo(S, n) == UNION {[1..k -> S] : k \in 0..n}

\* ---------------------------------------------------------------------
\* Values returned by the metric functions.
\* ---------------------------------------------------------------------
None == [none |-> TRUE, num |-> 0, den |-> 1]

Rat(n, d) == [none |-> FALSE, num |-> n, den |-> d]

RatLt(x, y) == x.num * y.den < y.num * x.den

RatEq(x, y) == x.num * y.den = y.num * x.den

Returned(v) == [raised |-> "", value |-> v]

Raised(e) == [raised |-> e, value |-> <<>>]

\* ---------------------------------------------------------------------
\* get_fastest_at_each_age
\* ---------------------------------------------------------------------
\* The test that replaces the record kept for an age.
ReplacesKeptSlower(runner, kept) == runner.time_seconds > kept.time_seconds

ReplacesKeptOrTies(runner, kept) == runner.time_seconds <= kept.time_seconds

ReplacesKept(runner, kept) == runner.time_seconds < kept.time_seconds

\* age_groups after the first n iterations of the loop, as the sequence of
\* its values in key insertion order (dict order).
RECURSIVE age_groups(_, _)
age_groups(rs, n) ==
  IF n = 0 THEN <<>>
  ELSE LET g == age_groups(rs, n - 1)
           runner == rs[n]
           at == {i \in 1..Len(g) : g[i].age = runner.age}
       IN IF at = {} THEN Append(g, runner)
          ELSE LET i == CHOOSE i \in at : TRUE
               IN IF ReplacesKept(runner, g[i]) THEN [g EXCEPT ![i] = runner]
                  ELSE g

get_fastest_at_each_age(rs) ==
  IF rs = <<>> THEN <<>> ELSE age_groups(rs, Len(rs))

\* ---------------------------------------------------------------------
\* compute_pareto_front
\* ---------------------------------------------------------------------
\* min(runners, key=time_seconds): the first runner with the least time.
fastest_runner(rs) ==
  LET i == CHOOSE i \in 1..Len(rs) :
             /\ \A j \in 1..Len(rs) : rs[i].time_seconds <= rs[j].time_seconds
             /\ \A j \in 1..(i - 1) : rs[j].time_seconds > rs[i].time_seconds
  IN rs[i]

\* sorted(runners, key=age): stable, built by insertion.
RECURSIVE sorted_runners(_)
sorted_runners(rs) ==
  IF rs = <<>> THEN <<>>
  ELSE LET n == Len(rs)
           s == sorted_runners(SubSeq(rs, 1, n - 1))
           x == rs[n]
           k == Cardinality({i \in 1..Len(s) : s[i].age <= x.age})
       IN SubSeq(s, 1, k) \o <<x>> \o SubSeq(s, k + 1, Len(s))

younger_than_peak(sorted, peak_age) ==
  SelectSeq(sorted, LAMBDA r : r.age < peak_age)

at_or_older_than_peak_mut(sorted, peak_age) ==
  SelectSeq(sorted, LAMBDA r : r.age > peak_age)

at_or_older_than_peak(sorted, peak_age) ==
  SelectSeq(sorted, LAMBDA r : r.age >= peak_age)

\* The inclusion test of both scans.
faster_than_best_mut(runner, best_time_so_far) ==
  runner.time_seconds <= best_time_so_far

faster_than_best(runner, best_time_so_far) ==
  runner.time_seconds < best_time_so_far

\* One scan loop over s, n iterations done: the runners appended and
\* best_time_so_far.
RECURSIVE scan(_, _)
scan(s, n) ==
  IF n = 0 THEN [kept |-> <<>>, best_time_so_far |-> inf]
  ELSE LET st == scan(s, n - 1)
           runner == s[n]
       IN IF faster_than_best(runner, st.best_time_so_far)
          THEN [kept |-> Append(st.kept, runner),
                best_time_so_far |-> runner.time_seconds]
          ELSE st

peak_age_of(rs) == fastest_runner(rs).age

compute_pareto_front(rs) ==
  IF rs = <<>> THEN <<>>
  ELSE LET peak_age == peak_age_of(rs)
           sorted == sorted_runners(rs)
           younger == younger_than_peak(sorted, peak_age)
           older == Reverse(at_or_older_than_peak(sorted, peak_age))
           pareto == scan(younger, Len(younger)).kept
           older_pareto == scan(older, Len(older)).kept
       IN pareto \o Reverse(older_pareto)

\* ---------------------------------------------------------------------
\* get_pareto_time_at_age
\* ---------------------------------------------------------------------
\* min(front, key=age) / max(front, key=age): the first such entry.
min_by_age(s) ==
  LET i == CHOOSE i \in 1..Len(s) :
             /\ \A j \in 1..Len(s) : s[i].age <= s[j].age
             /\ \A j \in 1..(i - 1) : s[j].age > s[i].age
  IN s[i]

max_by_age(s) ==
  LET i == CHOOSE i \in 1..Len(s) :
             /\ \A j \in 1..Len(s) : s[i].age >= s[j].age
             /\ \A j \in 1..(i - 1) : s[j].age < s[i].age
  IN s[i]

\* The interpolation with the time difference taken the other way round.
interpolate_mut(age, closest_younger, closest_older) ==
  LET age_diff == closest_older.age - closest_younger.age
      time_diff == closest_younger.time_seconds - closest_older.time_seconds
      age_offset == age - closest_younger.age
  IN Rat(closest_younger.time_seconds * age_diff + time_diff * age_offset,
         age_diff)

interpolate(age, closest_younger, closest_older) ==
  LET age_diff == closest_older.age - closest_younger.age
      time_diff == closest_older.time_seconds - closest_younger.time_seconds
      age_offset == age - closest_younger.age
  IN Rat(closest_younger.time_seconds * age_diff + time_diff * age_offset,
         age_diff)

get_pareto_time_at_age(age, pareto_front) ==
  IF pareto_front = <<>> THEN None
  ELSE LET exact == SelectSeq(pareto_front, LAMBDA p : p.age = age)
           younger == SelectSeq(pareto_front, LAMBDA p : p.age < age)
           older == SelectSeq(pareto_front, LAMBDA p : p.age > age)
       IN IF exact # <<>> THEN Rat(exact[1].time_seconds, 1)
          ELSE IF younger = <<>> /\ older = <<>> THEN None
          ELSE IF younger = <<>>
               THEN Rat(min_by_age(pareto_front).time_seconds, 1)
          ELSE IF older = <<>>
               THEN Rat(max_by_age(pareto_front).time_seconds, 1)
          ELSE interpolate(age, max_by_age(younger), min_by_age(older))

\* ---------------------------------------------------------------------
\* count_blocking_runners
\* ---------------------------------------------------------------------
blocking_count(runner, all) ==
  LET fastest == fastest_runner(all)
      peak_age == fastest.age
  IN IF runner.age < peak_age
     THEN Cardinality({i \in 1..Len(all) :
            all[i].age <= runner.age /\ all[i].time_seconds < runner.time_seconds})
     ELSE IF runner.age > peak_age
     THEN Cardinality({i \in 1..Len(all) :
            all[i].age >= runner.age /\ all[i].time_seconds < runner.time_seconds})
     ELSE IF runner.time_seconds = fastest.time_seconds THEN 0
     ELSE Cardinality({i \in 1..Len(all) :
            all[i].age = runner.age /\ all[i].time_seconds < runner.time_seconds})

\* min() of an empty list raises ValueError.
count_blocking_runners(runner, all) ==
  IF all = <<>> THEN Raised("ValueError")
  ELSE Returned(blocking_count(runner, all))

\* ---------------------------------------------------------------------
\* load_raw_results: the data directory
\* ---------------------------------------------------------------------
\* files[y] is data/results-<y>.txt: whether it exists, and the rows of it
\* that load_raw_results keeps (sex M or F, a time that parses), parsed.
Years == {"2023", "2024", "2025"}

RequestYears == Years \cup {"2022"}

Absent == [exists |-> FALSE, rows |-> <<>>]

load_raw_results(y) ==
  IF files[y].exists
  THEN [i \in 1..Len(files[y].rows) |->
          [name |-> files[y].rows[i].name,
           age |-> files[y].rows[i].age,
           sex |-> files[y].rows[i].sex,
           division |-> files[y].rows[i].division,
           div_place |-> files[y].rows[i].div_place,
           time_seconds |-> files[y].rows[i].time_seconds,
           time_display |-> files[y].rows[i].time_display,
           year |-> y,
           row |-> i]]
  ELSE <<>>

\* ---------------------------------------------------------------------
\* Sorting and string order
\* ---------------------------------------------------------------------
\* The strings of the model in lexical order, as Python compares them.
Lexical == <<"", "1", "2", "A", "B", "F", "M", "a", "b">>

StrLt(a, b) ==
  (CHOOSE i \in 1..Len(Lexical) : Lexical[i] = a)
    < (CHOOSE i \in 1..Len(Lexical) : Lexical[i] = b)

RECURSIVE Concat(_)
Concat(ss) == IF ss = <<>> THEN <<>> ELSE Head(ss) \o Concat(Tail(ss))

OfSex(rs, sx) == SelectSeq(rs, LAMBDA r : r.sex = sx)

\* ---------------------------------------------------------------------
\* load_race_data and build_year_data
\* ---------------------------------------------------------------------
\* The years of the all-time front of a year's view.
all_time_years_upto_mut(y) == <<y>>

all_time_years_upto(y) ==
  IF y = "2025" THEN <<"2023", "2024", "2025">>
  ELSE IF y = "2024" THEN <<"2023", "2024">>
  ELSE <<"2023">>

all_time_results(y) ==
  Concat([i \in 1..Len(all_time_years_upto(y)) |->
            load_raw_results(all_time_years_upto(y)[i])])

\* The all-time front of one sex: empty without historical rows.
all_time_pareto(y, sx) ==
  LET pool == OfSex(all_time_results(y), sx)
  IN IF pool = <<>> THEN <<>>
     ELSE compute_pareto_front(get_fastest_at_each_age(pool))

\* The test on the division place alone.
is_age_group_winner_row_mut(result) == result.div_place = "1"

is_age_group_winner_row(result) == result.div_place = "1" /\ result.division # ""

winner_key(r) == <<r.name, r.age, r.sex>>

age_group_winner_rows(results) == SelectSeq(results, is_age_group_winner_row)

by_sex_division(a, b) ==
  \/ StrLt(a.sex, b.sex)
  \/ (a.sex = b.sex /\ StrLt(a.division, b.division))

by_sex_age(a, b) ==
  \/ StrLt(a.sex, b.sex)
  \/ (a.sex = b.sex /\ a.age < b.age)

by_distance_time(a, b) ==
  \/ RatLt(a.distance_to_pareto, b.distance_to_pareto)
  \/ /\ RatEq(a.distance_to_pareto, b.distance_to_pareto)
     /\ a.time_seconds < b.time_seconds

\* Whether the sort key of a is less than that of b.
key_less(key, a, b) ==
  CASE key = "sex, division" -> by_sex_division(a, b)
    [] key = "sex, age" -> by_sex_age(a, b)
    [] key = "distance_to_pareto, time_seconds" -> by_distance_time(a, b)

\* list.sort(key=...): stable.
sort(s, key) ==
  LET pos(i) == 1 + Cardinality({j \in 1..Len(s) :
                     \/ key_less(key, s[j], s[i])
                     \/ (~key_less(key, s[i], s[j]) /\ j < i)})
  IN [k \in 1..Len(s) |-> s[CHOOSE i \in 1..Len(s) : pos(i) = k]]

\* distance = time_seconds - pareto_time if pareto_time else None
distance_to_pareto(result, pareto) ==
  LET pareto_time == get_pareto_time_at_age(result.age, pareto)
  IN IF pareto_time.none \/ pareto_time.num = 0 THEN None
     ELSE Rat(result.time_seconds * pareto_time.den - pareto_time.num,
              pareto_time.den)

\* male_data / female_data of load_race_data.
runner_data(results, pareto) ==
  [i \in 1..Len(results) |->
    [age |-> results[i].age,
     time_seconds |-> results[i].time_seconds,
     time_display |-> results[i].time_display,
     name |-> results[i].name,
     distance_to_pareto |-> distance_to_pareto(results[i], pareto),
     blocking_runners |-> count_blocking_runners(results[i], results).value,
     row |-> results[i].row]]

plain_data(rs) ==
  [i \in 1..Len(rs) |->
    [age |-> rs[i].age, time_seconds |-> rs[i].time_seconds,
     time_display |-> rs[i].time_display, name |-> rs[i].name,
     row |-> rs[i].row]]

all_time_pareto_data(rs, y) ==
  [i \in 1..Len(rs) |->
    [age |-> rs[i].age, time_seconds |-> rs[i].time_seconds,
     time_display |-> rs[i].time_display, name |-> rs[i].name,
     year |-> rs[i].year, is_current_year |-> (rs[i].year = y),
     row |-> rs[i].row]]

adjusted(data, sx) ==
  [i \in 1..Len(data) |->
    [name |-> data[i].name, age |-> data[i].age, sex |-> sx,
     time_display |-> data[i].time_display,
     time_seconds |-> data[i].time_seconds,
     distance_to_pareto |->
       IF data[i].distance_to_pareto.none THEN Rat(0, 1)
       ELSE data[i].distance_to_pareto,
     blocking_runners |-> data[i].blocking_runners,
     row |-> data[i].row]]

load_race_data(y) ==
  LET results == load_raw_results(y)
      male_results == OfSex(results, "M")
      female_results == OfSex(results, "F")
      male_pareto == compute_pareto_front(male_results)
      female_pareto == compute_pareto_front(female_results)
      age_group_winner_set == {winner_key(r) : r \in Range(age_group_winner_rows(results))}
      pareto_runner_set ==
        {<<r.name, r.age, "M">> : r \in Range(male_pareto)}
          \cup {<<r.name, r.age, "F">> : r \in Range(female_pareto)}
      male_data == runner_data(male_results, male_pareto)
      female_data == runner_data(female_results, female_pareto)
      winners(front, sx) ==
        [i \in 1..Len(front) |->
          [name |-> front[i].name, age |-> front[i].age, sex |-> sx,
           time_display |-> front[i].time_display,
           is_age_group_winner |->
             (<<front[i].name, front[i].age, sx>> \in age_group_winner_set),
           row |-> front[i].row]]
      sorted_winners == sort(age_group_winner_rows(results), "sex, division")
  IN [male_all |-> male_data,
      female_all |-> female_data,
      male_pareto |-> plain_data(male_pareto),
      female_pareto |-> plain_data(female_pareto),
      male_all_time_pareto |-> all_time_pareto_data(all_time_pareto(y, "M"), y),
      female_all_time_pareto |-> all_time_pareto_data(all_time_pareto(y, "F"), y),
      age_group_winners |->
        [i \in 1..Len(sorted_winners) |->
          [name |-> sorted_winners[i].name, age |-> sorted_winners[i].age,
           sex |-> sorted_winners[i].sex,
           division |-> sorted_winners[i].division,
           time_display |-> sorted_winners[i].time_display,
           is_pareto |-> (winner_key(sorted_winners[i]) \in pareto_runner_set),
           row |-> sorted_winners[i].row]],
      pareto_winners |->
        sort(winners(male_pareto, "M") \o winners(female_pareto, "F"), "sex, age"),
      pareto_adjusted_rankings |->
        sort(adjusted(male_data, "M") \o adjusted(female_data, "F"),
             "distance_to_pareto, time_seconds")]

\* build_year_data(year) with all_time_years left to its default.
build_year_data(y) ==
  LET results == load_raw_results(y)
      male_results == OfSex(results, "M")
      female_results == OfSex(results, "F")
      male_pareto == compute_pareto_front(male_results)
      female_pareto == compute_pareto_front(female_results)
      winners(front, sx) ==
        [i \in 1..Len(front) |->
          [name |-> front[i].name, age |-> front[i].age, sex |-> sx,
           time_display |-> front[i].time_display, row |-> front[i].row]]
      sorted_winners == sort(age_group_winner_rows(results), "sex, division")
  IN [male_all |-> plain_data(male_results),
      female_all |-> plain_data(female_results),
      male_pareto |-> plain_data(male_pareto),
      female_pareto |-> plain_data(female_pareto),
      male_all_time_pareto |-> all_time_pareto_data(all_time_pareto(y, "M"), y),
      female_all_time_pareto |-> all_time_pareto_data(all_time_pareto(y, "F"), y),
      age_group_winners |->
        [i \in 1..Len(sorted_winners) |->
          [name |-> sorted_winners[i].name, age |-> sorted_winners[i].age,
           sex |-> sorted_winners[i].sex,
           division |-> sorted_winners[i].division,
           time_display |-> sorted_winners[i].time_display,
           row |-> sorted_winners[i].row]],
      pareto_winners |->
        sort(winners(male_pareto, "M") \o winners(female_pareto, "F"), "sex, age")]

\* The exception of the request: count_blocking_runners is called on each
\* record of each single-year pool, and nothing else of it raises.
load_race_data_raises(y) ==
  \E sx \in {"M", "F"} :
    LET pool == OfSex(load_raw_results(y), sx)
    IN \E r \in Range(pool) : count_blocking_runners(r, pool).raised # ""

\* ---------------------------------------------------------------------
\* The all-time view: get_all_time_data and build_all_time_data
\* ---------------------------------------------------------------------
all_years == <<"2023", "2024", "2025">>

all_results ==
  Concat([i \in 1..Len(all_years) |-> load_raw_results(all_years[i])])

\* name_year_counts[name]: the years of the records of that name, one per
\* record.
name_year_counts(results, name) ==
  LET of_name == SelectSeq(results, LAMBDA r : r.name = name)
  IN [i \in 1..Len(of_name) |-> of_name[i].year]

\* The test on the number of records of the name, not of distinct years.
in_several_years_mut(results, name) ==
  Len(name_year_counts(results, name)) > 1

\* len(set(name_year_counts[name])) > 1
in_several_years(results, name) ==
  Cardinality(Range(name_year_counts(results, name))) > 1

\* f"{name} ({year})"
name_with_year(name, y) == name \o " (" \o y \o ")"

\* The records with their display_name.
with_display_name(results) ==
  [i \in 1..Len(results) |->
     [display_name |->
        IF in_several_years(results, results[i].name)
        THEN name_with_year(results[i].name, results[i].year)
        ELSE results[i].name] @@ results[i]]

all_time_data(rs) ==
  [i \in 1..Len(rs) |->
    [age |-> rs[i].age, time_seconds |-> rs[i].time_seconds,
     time_display |-> rs[i].time_display, name |-> rs[i].display_name,
     year |-> rs[i].year, row |-> rs[i].row]]

all_time_winners(front, sx) ==
  [i \in 1..Len(front) |->
    [name |-> front[i].display_name, age |-> front[i].age, sex |-> sx,
     time_display |-> front[i].time_display, year |-> front[i].year,
     row |-> front[i].row]]

get_all_time_data ==
  LET results == with_display_name(all_results)
      male_results == OfSex(results, "M")
      female_results == OfSex(results, "F")
      male_pareto == compute_pareto_front(get_fastest_at_each_age(male_results))
      female_pareto == compute_pareto_front(get_fastest_at_each_age(female_results))
  IN [male_all |-> all_time_data(male_results),
      female_all |-> all_time_data(female_results),
      male_pareto |-> all_time_data(male_pareto),
      female_pareto |-> all_time_data(female_pareto),
      pareto_winners |->
        sort(all_time_winners(male_pareto, "M")
               \o all_time_winners(female_pareto, "F"), "sex, age")]

\* build.py repeats the function of server.py without the route.
build_all_time_data ==
  LET results == with_display_name(all_results)
      male_results == OfSex(results, "M")
      female_results == OfSex(results, "F")
      fastest_male_by_age == get_fastest_at_each_age(male_results)
      fastest_female_by_age == get_fastest_at_each_age(female_results)
      male_pareto == compute_pareto_front(fastest_male_by_age)
      female_pareto == compute_pareto_front(fastest_female_by_age)
  IN [male_all |-> all_time_data(male_results),
      female_all |-> all_time_data(female_results),
      male_pareto |-> all_time_data(male_pareto),
      female_pareto |-> all_time_data(female_pareto),
      pareto_winners |->
        sort(all_time_winners(male_pareto, "M")
               \o all_time_winners(female_pareto, "F"), "sex, age")]

\* ---------------------------------------------------------------------
\* The functions applied to one pool: runners is the list passed in,
\* call the call made on it and ret what it returned.
\* ---------------------------------------------------------------------
NoRunner == [row |-> 0, age |-> 0, time_seconds |-> 0]

Idle == [op |-> "idle", age |-> 0, runner |-> NoRunner]

\* The list whose i-th runner has the age and time of the i-th pair.
Pool(pairs) ==
  [i \in 1..Len(pairs) |->
     [row |-> i, age |-> pairs[i][1], time_seconds |-> pairs[i][2]]]

Pools == {Pool(p) : p \in SeqsUpTo(Ages \X Times, MaxLen)}

\* A record that is in no pool, for the calls made with an empty pool.
Probes == {[row |-> 0, age |-> a, time_seconds |-> t] : a \in Ages, t \in Times}

NoFiles == [y \in RequestYears |-> Absent]

Init ==
  /\ runners \in Pools
  /\ call = Idle
  /\ ret = Returned(<<>>)
  /\ files = NoFiles
  /\ year = ""

CallGetFastestAtEachAge ==
  /\ call.op = "idle"
  /\ call' = [Idle EXCEPT !.op = "get_fastest_at_each_age"]
  /\ ret' = Returned(get_fastest_at_each_age(runners))
  /\ UNCHANGED <<runners, files, year>>

CallComputeParetoFront ==
  /\ call.op = "idle"
  /\ call' = [Idle EXCEPT !.op = "compute_pareto_front"]
  /\ ret' = Returned(compute_pareto_front(runners))
  /\ UNCHANGED <<runners, files, year>>

CallGetParetoTimeAtAge ==
  /\ call.op = "idle"
  /\ \E age \in Ages :
       /\ call' = [Idle EXCEPT !.op = "get_pareto_time_at_age", !.age = age]
       /\ ret' = Returned(get_pareto_time_at_age(age, compute_pareto_front(runners)))
  /\ UNCHANGED <<runners, files, year>>

CallCountBlockingRunners ==
  /\ call.op = "idle"
  /\ \E runner \in Range(runners) \cup (IF runners = <<>> THEN Probes ELSE {}) :
       /\ call' = [Idle EXCEPT !.op = "count_blocking_runners", !.runner = runner]
       /\ ret' = count_blocking_runners(runner, runners)
  /\ UNCHANGED <<runners, files, year>>

\* One iteration of the loop that fills male_data / female_data: the
\* distance of a record of the pool to the front of that pool.
CallDistanceToPareto ==
  /\ call.op = "idle"
  /\ \E result \in Range(runners) :
       /\ call' = [Idle EXCEPT !.op = "distance_to_pareto", !.runner = result]
       /\ ret' = Returned(distance_to_pareto(result, compute_pareto_front(runners)))
  /\ UNCHANGED <<runners, files, year>>

Next ==
  \/ CallGetFastestAtEachAge
  \/ CallComputeParetoFront
  \/ CallGetParetoTimeAtAge
  \/ CallCountBlockingRunners
  \/ CallDistanceToPareto

Spec == Init /\ [][Next]_vars

\* ---------------------------------------------------------------------
\* The per-year requests on a data directory
\* ---------------------------------------------------------------------
FileRows ==
  [name : {"a"}, age : 1..MaxLoadAge, sex : {"M", "F"}, division : {"A"},
   div_place : {"1"}, time_seconds : 1..MaxLoadTime, time_display : {0}]

\* time_display is the text that parse_time turned into time_seconds.
WithDisplay(rows) ==
  [i \in 1..Len(rows) |-> [rows[i] EXCEPT !.time_display = rows[i].time_seconds]]

\* One year's file exists, with up to MaxRows rows; the others are missing.
LoadInit ==
  /\ runners = <<>>
  /\ call = Idle
  /\ ret = Returned(<<>>)
  /\ year = ""
  /\ \E cur \in Years : \E rows \in SeqsUpTo(FileRows, MaxRows) :
       files = [y \in RequestYears |->
                  IF y = cur THEN [exists |-> TRUE, rows |-> WithDisplay(rows)]
                  ELSE Absent]

\* GET /data?year=y
LoadRaceData ==
  /\ call.op = "idle"
  /\ \E y \in RequestYears :
       /\ year' = y
       /\ call' = [Idle EXCEPT !.op = "load_race_data"]
       /\ ret' = IF load_race_data_raises(y) THEN Raised("ValueError")
                 ELSE Returned(load_race_data(y))
  /\ UNCHANGED <<runners, files>>

BuildYearData ==
  /\ call.op = "idle"
  /\ \E y \in RequestYears :
       /\ year' = y
       /\ call' = [Idle EXCEPT !.op = "build_year_data"]
       /\ ret' = Returned(build_year_data(y))
  /\ UNCHANGED <<runners, files>>

LoadNext ==
  \/ LoadRaceData
  \/ BuildYearData

SpecLoad == LoadInit /\ [][LoadNext]_vars

\* ---------------------------------------------------------------------
\* The requests on a file of one or two rows with names, divisions and
\* division places of several kinds.
\* ---------------------------------------------------------------------
FlagRows ==
  [name : {"a", "b"}, age : 1..MaxLoadAge, sex : {"M", "F"},
   division : {"", "A"}, div_place : {"1", "2"},
   time_seconds : 1..MaxLoadTime, time_display : {0}]

FlagsInit ==
  /\ runners = <<>>
  /\ call = Idle
  /\ ret = Returned(<<>>)
  /\ year = ""
  /\ \E cur \in Years : \E r1, r2 \in FlagRows : \E rows \in {<<r1>>, <<r1, r2>>} :
       files = [y \in RequestYears |->
                  IF y = cur THEN [exists |-> TRUE, rows |-> WithDisplay(rows)]
                  ELSE Absent]

SpecFlags == FlagsInit /\ [][LoadNext]_vars

\* ---------------------------------------------------------------------
\* The all-time requests on data files of several years.
\* ---------------------------------------------------------------------
MaxAllTimeRows == 2

\* A row of the corpus with the year of its file; runner a is a man and
\* runner b a woman.
CorpusRows ==
  [name : {"a", "b"}, year : Years, age : 1..MaxLoadAge,
   time_seconds : 1..MaxLoadTime]

\* The file of year y: the rows of the corpus of that year, in order.
FileOf(corpus, y) ==
  LET of_year == SelectSeq(corpus, LAMBDA c : c.year = y)
  IN [exists |-> TRUE,
      rows |-> [i \in 1..Len(of_year) |->
                  [name |-> of_year[i].name, age |-> of_year[i].age,
                   sex |-> IF of_year[i].name = "a" THEN "M" ELSE "F",
                   division |-> "A", div_place |-> "1",
                   time_seconds |-> of_year[i].time_seconds,
                   time_display |-> of_year[i].time_seconds]]]

\* The three files exist and hold up to MaxAllTimeRows rows together.
AllTimeInit ==
  /\ runners = <<>>
  /\ call = Idle
  /\ ret = Returned(<<>>)
  /\ year = ""
  /\ \E corpus \in SeqsUpTo(CorpusRows, MaxAllTimeRows) :
       files = [y \in RequestYears |->
                  IF y \in Years THEN FileOf(corpus, y) ELSE Absent]

\* GET /data/all-time
GetAllTimeData ==
  /\ call.op = "idle"
  /\ call' = [Idle EXCEPT !.op = "get_all_time_data"]
  /\ ret' = Returned(get_all_time_data)
  /\ UNCHANGED <<runners, files, year>>

BuildAllTimeData ==
  /\ call.op = "idle"
  /\ call' = [Idle EXCEPT !.op = "build_all_time_data"]
  /\ ret' = Returned(build_all_time_data)
  /\ UNCHANGED <<runners, files, year>>

AllTimeNext ==
  \/ GetAllTimeData
  \/ BuildAllTimeData

SpecAllTime == AllTimeInit /\ [][AllTimeNext]_vars

\* ---------------------------------------------------------------------
\* Properties of the front
\* ---------------------------------------------------------------------
Front == ret.value

FrontReturned == call.op = "compute_pareto_front"

MinTime(s) ==
  CHOOSE t \in {s[i].time_seconds : i \in 1..Len(s)} :
    \A i \in 1..Len(s) : t <= s[i].time_seconds

\* C1: the front returned by compute_pareto_front has strictly increasing
\* ages from left to right (at most one record per age), for every input.
C1_StrictlyIncreasingAges ==
  FrontReturned =>
    \A i, j \in 1..Len(Front) : i < j => Front[i].age < Front[j].age

\* The first index of the front whose record is at or older than the peak
\* age of the input.
PeakIndex ==
  CHOOSE p \in 1..Len(Front) :
    /\ Front[p].age >= peak_age_of(runners)
    /\ \A q \in 1..(p - 1) : Front[q].age < peak_age_of(runners)

StrictlyDecreasingTimes(lo, hi) ==
  \A i, j \in lo..hi : i < j => Front[i].time_seconds > Front[j].time_seconds

StrictlyIncreasingTimes(lo, hi) ==
  \A i, j \in lo..hi : i < j => Front[i].time_seconds < Front[j].time_seconds

\* C2 (as claimed): with p the index of a minimum-time record of the front,
\* times strictly decrease over [first, p] and strictly increase over
\* [p, last].
C2_StrictAroundPeak ==
  (FrontReturned /\ Front # <<>>) =>
    \E p \in 1..Len(Front) :
      /\ Front[p].time_seconds = MinTime(Front)
      /\ StrictlyDecreasingTimes(1, p)
      /\ StrictlyIncreasingTimes(p, Len(Front))

\* C2 (amended): with p the index of the first front record at or older
\* than the peak age, that record has the minimum time, times strictly
\* decrease over the records before p, strictly increase over [p, last],
\* and the record before p is not faster than the one at p.
C2_StrictOnEachSide ==
  (FrontReturned /\ Front # <<>>) =>
    /\ \E p \in 1..Len(Front) : Front[p].age >= peak_age_of(runners)
    /\ Front[PeakIndex].time_seconds = MinTime(Front)
    /\ StrictlyDecreasingTimes(1, PeakIndex - 1)
    /\ StrictlyIncreasingTimes(PeakIndex, Len(Front))
    /\ PeakIndex > 1 =>
         Front[PeakIndex - 1].time_seconds >= Front[PeakIndex].time_seconds

\* A front with records on both sides of the peak, the record before the
\* peak tying with it.
C2_Witness ==
  /\ FrontReturned
  /\ Len(Front) >= 3
  /\ \E p \in 2..(Len(Front) - 1) :
       /\ Front[p].age >= peak_age_of(runners)
       /\ Front[p - 1].age < peak_age_of(runners)
       /\ Front[p - 1].time_seconds = Front[p].time_seconds

\* C3: for a non-empty input the front is non-empty and its minimum time is
\* the minimum time of the input.
C3_FrontHoldsMinimum ==
  (FrontReturned /\ runners # <<>>) =>
    /\ Front # <<>>
    /\ MinTime(Front) = MinTime(runners)

\* An input whose fastest runner is neither the youngest nor the oldest.
C3_Witness ==
  /\ FrontReturned
  /\ Len(runners) >= 3
  /\ \E i, j, k \in 1..Len(runners) :
       /\ runners[i].age < runners[j].age
       /\ runners[j].age < runners[k].age
       /\ runners[j].time_seconds < runners[i].time_seconds
       /\ runners[j].time_seconds < runners[k].time_seconds
  /\ MinTime(Front) = MinTime(runners)

SameSide(a, b, peak_age) ==
  \/ a.age < peak_age /\ b.age < peak_age
  \/ a.age >= peak_age /\ b.age >= peak_age

Dist(a, peak_age) == IF a.age >= peak_age THEN a.age - peak_age ELSE peak_age - a.age

Dominates(o, r, peak_age) ==
  /\ o # r
  /\ SameSide(o, r, peak_age)
  /\ Dist(o, peak_age) > Dist(r, peak_age)
  /\ o.time_seconds <= r.time_seconds

\* C4: no front record is dominated by another input record that is on the
\* same side of the peak age, strictly farther from it and not slower.
C4_NoFrontRecordDominated ==
  FrontReturned =>
    \A r \in Range(Front) : \A o \in Range(runners) :
      ~Dominates(o, r, peak_age_of(runners))

\* An input with a dominated runner, which the front leaves out.
C4_Witness ==
  /\ FrontReturned
  /\ \E r, o \in Range(runners) :
       /\ Dominates(o, r, peak_age_of(runners))
       /\ r \notin Range(Front)
       /\ o \in Range(Front)

Orderings(s) ==
  {[i \in 1..Len(s) |-> s[f[i]]] : f \in Permutations(1..Len(s))}

\* The (age, time) pairs of a list: rows of equal contents count as one.
Contents(s) == {<<s[i].age, s[i].time_seconds>> : i \in 1..Len(s)}

\* C5: every ordering of the same input records yields the same set of
\* front records.
C5_OrderIndependent ==
  FrontReturned =>
    \A o \in Orderings(runners) :
      Contents(compute_pareto_front(o)) = Contents(Front)

\* ---------------------------------------------------------------------
\* Properties of the age reducer
\* ---------------------------------------------------------------------
\* C6: get_fastest_at_each_age returns exactly one record for each age of
\* the pool, each a pool record that no pool record of its age beats.
C6_OneFastestPerAge ==
  call.op = "get_fastest_at_each_age" =>
    /\ \A r \in Range(runners) :
         Cardinality({i \in 1..Len(ret.value) : ret.value[i].age = r.age}) = 1
    /\ \A k \in Range(ret.value) :
         /\ k \in Range(runners)
         /\ \A r \in Range(runners) :
              r.age = k.age => k.time_seconds <= r.time_seconds

\* A pool with two records of one age and different times, the slower first.
C6_Witness ==
  /\ call.op = "get_fastest_at_each_age"
  /\ \E i, j \in 1..Len(runners) :
       /\ i < j
       /\ runners[i].age = runners[j].age
       /\ runners[j].time_seconds < runners[i].time_seconds
       /\ runners[j] \in Range(ret.value)
  /\ Len(ret.value) >= 2

\* ---------------------------------------------------------------------
\* Properties of the metrics
\* ---------------------------------------------------------------------
\* C7: for a record of a non-empty pool, count_blocking_runners is 0 if and
\* only if the record (its age and time) is on the front computed from the
\* pool.
C7_ZeroIffOnFront ==
  (call.op = "count_blocking_runners" /\ runners # <<>>) =>
    /\ ret.raised = ""
    /\ (ret.value = 0) <=>
         (<<call.runner.age, call.runner.time_seconds>>
            \in Contents(compute_pareto_front(runners)))

\* C8: on an empty pool or front each function returns its empty or neutral
\* result and none raises.
C8_EmptyInputNeutral ==
  runners = <<>> =>
    /\ call.op = "get_fastest_at_each_age" => ret = Returned(<<>>)
    /\ call.op = "compute_pareto_front" => ret = Returned(<<>>)
    /\ call.op = "get_pareto_time_at_age" => ret = Returned(None)
    /\ call.op = "count_blocking_runners" => ret.raised = ""

\* ---------------------------------------------------------------------
\* Properties of the per-year requests
\* ---------------------------------------------------------------------
YearRequested == call.op \in {"load_race_data", "build_year_data"}

SourceAbsent == YearRequested /\ ~files[year].exists

\* C9 (as claimed): when the source of the requested year is absent, the
\* request raises nothing and every list of its result is empty, the
\* all-time fronts included.
C9_AbsentSourceAllEmpty ==
  SourceAbsent =>
    /\ ret.raised = ""
    /\ \A f \in DOMAIN ret.value : ret.value[f] = <<>>

AllTimeLists == {"male_all_time_pareto", "female_all_time_pareto"}

\* The historical years of a year's view: 2023 up to the year, and 2023
\* alone for a year that is none of 2023, 2024, 2025.
HistoricalYears(y) ==
  {"2023"} \cup (IF y \in {"2024", "2025"} THEN {"2024"} ELSE {})
           \cup (IF y = "2025" THEN {"2025"} ELSE {})

HistoricalRows(y, sx) ==
  UNION {{<<h, r.age, r.time_seconds>> :
            r \in {q \in Range(files[h].rows) : files[h].exists /\ q.sex = sx}} :
         h \in HistoricalYears(y)}

\* C9 (amended): when the source of the requested year is absent, the
\* request raises nothing and every list drawn from that year is empty; an
\* all-time front is empty exactly when no historical year of the view holds
\* a record of its sex, and its entries are records of those years, none
\* flagged as of the current year.
C9_AbsentSourceOnlyAllTime ==
  SourceAbsent =>
    /\ ret.raised = ""
    /\ \A f \in DOMAIN ret.value \ AllTimeLists : ret.value[f] = <<>>
    /\ \A sx \in {"M", "F"} :
         LET front == IF sx = "M" THEN ret.value.male_all_time_pareto
                      ELSE ret.value.female_all_time_pareto
         IN /\ (front = <<>>) <=> (HistoricalRows(year, sx) = {})
            /\ \A e \in Range(front) :
                 /\ <<e.year, e.age, e.time_seconds>> \in HistoricalRows(year, sx)
                 /\ ~e.is_current_year

\* A year outside 2023..2025 is requested while the 2023 file holds records:
\* the all-time front is not empty.
C9_Witness ==
  /\ call.op = "load_race_data"
  /\ year = "2022"
  /\ ~files[year].exists
  /\ ret.value.male_all_time_pareto # <<>>
  /\ ret.value.male_all = <<>>

OnFrontOfItsSex(e) ==
  <<e.age, e.time_seconds>>
    \in Contents(IF e.sex = "M" THEN ret.value.male_pareto
                 ELSE ret.value.female_pareto)

\* C10: pareto_adjusted_rankings is sorted by (distance_to_pareto,
\* time_seconds) ascending and every record on its sex's front precedes
\* every record that is on no front.
C10_RankingFrontFirst ==
  (call.op = "load_race_data" /\ ret.raised = "") =>
    LET ranking == ret.value.pareto_adjusted_rankings
    IN /\ \A i, j \in 1..Len(ranking) : i < j =>
            \/ RatLt(ranking[i].distance_to_pareto, ranking[j].distance_to_pareto)
            \/ /\ RatEq(ranking[i].distance_to_pareto, ranking[j].distance_to_pareto)
               /\ ranking[i].time_seconds <= ranking[j].time_seconds
       /\ \A i, j \in 1..Len(ranking) :
            (OnFrontOfItsSex(ranking[i]) /\ ~OnFrontOfItsSex(ranking[j])) => i < j

\* ---------------------------------------------------------------------
\* Properties of the front time at an age
\* ---------------------------------------------------------------------
\* C11: at the age of any entry of the front computed from the pool,
\* get_pareto_time_at_age returns exactly that entry's time, so the entry's
\* distance to the front is 0.
C11_ExactTimeOfFrontEntry ==
  call.op = "get_pareto_time_at_age" =>
    \A e \in Range(compute_pareto_front(runners)) :
      e.age = call.age => ret = Returned(Rat(e.time_seconds, 1))

\* The front of the pool has strictly increasing ages.
FrontAgesIncrease ==
  LET front == compute_pareto_front(runners)
  IN \A i, j \in 1..Len(front) : i < j => front[i].age < front[j].age

\* The age asked for matches no front entry and lies strictly between two.
AgeInsideFront ==
  LET front == compute_pareto_front(runners)
  IN /\ call.op = "get_pareto_time_at_age"
     /\ \A e \in Range(front) : e.age # call.age
     /\ \E e \in Range(front) : e.age < call.age
     /\ \E e \in Range(front) : e.age > call.age

\* The front entries nearest in age to the age asked for, on each side.
NearestYounger ==
  LET front == compute_pareto_front(runners)
  IN CHOOSE y \in Range(front) :
       /\ y.age < call.age
       /\ \A e \in Range(front) : e.age < call.age => e.age <= y.age

NearestOlder ==
  LET front == compute_pareto_front(runners)
  IN CHOOSE o \in Range(front) :
       /\ o.age > call.age
       /\ \A e \in Range(front) : e.age > call.age => e.age >= o.age

SingleYearReturned == call.op = "load_race_data" /\ ret.raised = ""

\* The single-year front of a sex in the response.
FrontOfSex(sx) ==
  IF sx = "M" THEN ret.value.male_pareto ELSE ret.value.female_pareto

\* The rows of the file requested, as read.
RequestedRows == load_raw_results(year)

\* C14 as claimed: a winner is flagged is_pareto if and only if its own
\* record is on the front of its sex, and a front record is flagged
\* is_age_group_winner if and only if it has itself division place "1"
\* and a division.
C14_FlagsOfOwnRecord ==
  SingleYearReturned =>
    /\ \A w \in Range(ret.value.age_group_winners) :
         w.is_pareto <=> \E e \in Range(FrontOfSex(w.sex)) : e.row = w.row
    /\ \A p \in Range(ret.value.pareto_winners) :
         p.is_age_group_winner <=>
           /\ RequestedRows[p.row].div_place = "1"
           /\ RequestedRows[p.row].division # ""

\* No two rows of the file requested have the same name, age and sex.
KeysDistinct ==
  \A i, j \in 1..Len(RequestedRows) :
    (/\ RequestedRows[i].name = RequestedRows[j].name
     /\ RequestedRows[i].age = RequestedRows[j].age
     /\ RequestedRows[i].sex = RequestedRows[j].sex) => i = j

\* C14: a winner is flagged is_pareto if and only if some record on the
\* front of its sex has its name and age, and a front record is flagged
\* is_age_group_winner if and only if some record of the year with its
\* name, age and sex has division place "1" and a division; when no two
\* records share name, age and sex, that record is the entry's own.
C14_FlagsByNameAgeSex ==
  SingleYearReturned =>
    /\ \A w \in Range(ret.value.age_group_winners) :
         w.is_pareto <=>
           \E e \in Range(FrontOfSex(w.sex)) : e.name = w.name /\ e.age = w.age
    /\ \A p \in Range(ret.value.pareto_winners) :
         p.is_age_group_winner <=>
           \E r \in Range(RequestedRows) :
             /\ r.name = p.name /\ r.age = p.age /\ r.sex = p.sex
             /\ r.div_place = "1"
             /\ r.division # ""
    /\ KeysDistinct => C14_FlagsOfOwnRecord

\* Two records share name, age and sex: the one that won its division is
\* off the front and is flagged is_pareto, the other is on the front and
\* is flagged is_age_group_winner.
C14_Witness ==
  /\ SingleYearReturned
  /\ ~KeysDistinct
  /\ \E w \in Range(ret.value.age_group_winners) :
       /\ w.is_pareto
       /\ \A e \in Range(FrontOfSex(w.sex)) : e.row # w.row
  /\ \E p \in Range(ret.value.pareto_winners) :
       /\ p.is_age_group_winner
       /\ RequestedRows[p.row].div_place # "1"

\* ---------------------------------------------------------------------
\* The peak record, ties within an age, and the front of a front
\* ---------------------------------------------------------------------
\* C15: for a non-empty pool the peak record, the first record in input
\* order with the minimum time, is on the returned front (a record of its
\* age and time is).
C15_PeakOnFront ==
  (FrontReturned /\ runners # <<>>) =>
    <<fastest_runner(runners).age, fastest_runner(runners).time_seconds>>
      \in Contents(Front)

\* The records of the pool that have the minimum time of their age.
FastestOfTheirAge ==
  {i \in 1..Len(runners) :
     \A j \in 1..Len(runners) :
       runners[j].age = runners[i].age =>
         runners[i].time_seconds <= runners[j].time_seconds}

\* C16: when several records of one age tie for the minimum time of that
\* age, get_fastest_at_each_age keeps the first of them in input order,
\* whatever records of other ages stand before, between or after them.
C16_FirstOfTiesKept ==
  call.op = "get_fastest_at_each_age" =>
    \A i \in FastestOfTheirAge :
      runners[i] \in Range(ret.value) <=>
        \A j \in FastestOfTheirAge :
          runners[j].age = runners[i].age => i <= j

\* Two records of one age tie for its minimum time with a record of
\* another age between them, and a record of that age was returned.
C16_Witness ==
  /\ call.op = "get_fastest_at_each_age"
  /\ \E i, j \in FastestOfTheirAge :
       /\ i + 1 < j
       /\ runners[i].age = runners[j].age
       /\ runners[i + 1].age # runners[i].age
       /\ runners[i] \in Range(ret.value)

\* C18: the front of a front is that front: compute_pareto_front applied to
\* the list it returned returns the same sequence.
C18_FrontOfFrontIsFront ==
  FrontReturned => compute_pareto_front(Front) = Front

\* ---------------------------------------------------------------------
\* The distance of a record to the front of its own pool
\* ---------------------------------------------------------------------
\* C17: for every record of a pool, distance_to_pareto against the front
\* of that pool is not null and is not negative.
C17_DistanceNotNegative ==
  call.op = "distance_to_pareto" =>
    /\ ret.raised = ""
    /\ ~ret.value.none
    /\ ~RatLt(ret.value, Rat(0, 1))

\* ---------------------------------------------------------------------
\* Properties of the all-time view
\* ---------------------------------------------------------------------
AllTimeReturned ==
  call.op \in {"get_all_time_data", "build_all_time_data"} /\ ret.raised = ""

\* The entries of the all-time response, of its five lists.
AllTimeEntries ==
  Range(ret.value.male_all) \cup Range(ret.value.female_all)
    \cup Range(ret.value.male_pareto) \cup Range(ret.value.female_pareto)
    \cup Range(ret.value.pareto_winners)

\* The name in the data files of the record an entry was made from.
RawName(e) == files[e.year].rows[e.row].name

\* The name has records in two different years' files.
InTwoYears(name) ==
  \E y1, y2 \in Years :
    /\ y1 # y2
    /\ \E i \in 1..Len(files[y1].rows) : files[y1].rows[i].name = name
    /\ \E i \in 1..Len(files[y2].rows) : files[y2].rows[i].name = name

\* The records of a list, each as the year and row it was read from.
Origins(s) == [i \in 1..Len(s) |-> <<s[i].year, s[i].row>>]

\* C13: in the all-time view every record is shown, with the display name
\* "<name> (<year>)" if its name has records in more than one year and with
\* its name otherwise, and the fronts are those computed from the records
\* as read, without display names.
C13_DisplayNameByYears ==
  AllTimeReturned =>
    /\ \A e \in AllTimeEntries :
         e.name = IF InTwoYears(RawName(e))
                  THEN RawName(e) \o " (" \o e.year \o ")"
                  ELSE RawName(e)
    /\ \A y \in Years : \A i \in 1..Len(files[y].rows) :
         \E e \in Range(ret.value.male_all) \cup Range(ret.value.female_all) :
           e.year = y /\ e.row = i
    /\ Origins(ret.value.male_pareto) =
         Origins(compute_pareto_front(
                   get_fastest_at_each_age(OfSex(all_results, "M"))))
    /\ Origins(ret.value.female_pareto) =
         Origins(compute_pareto_front(
                   get_fastest_at_each_age(OfSex(all_results, "F"))))

\* A name with records in two years, both on the front and shown with
\* their years.
C13_Witness ==
  /\ AllTimeReturned
  /\ Len(ret.value.male_pareto) = 2
  /\ ret.value.male_pareto[1].name = "a (2023)"
  /\ ret.value.male_pareto[2].name = "a (2025)"

====
